---- MODULE Spec2Model ----
(***************************************************************************)
(* Model of the stock-sentiment backend (src/main.py): the news pipeline   *)
(* fetch_news_rss -> analyze_headlines -> summarize_impact -> the          *)
(* POST /analyze_news response.                                            *)
(*                                                                         *)
(* Text is a sequence of one-character strings, so that whitespace         *)
(* cleaning and lower-casing are computed character by character.  Time is *)
(* an integer number of seconds.  The RSS transport, the wall clock and    *)
(* the FinBERT classifier are the environment: a fetch succeeds or raises, *)
(* every clock reading is at least the previous one, every classifier call *)
(* returns one of its results or raises.                                   *)
(***************************************************************************)
EXTENDS Integers, Sequences, FiniteSets, TLC

VARIABLES
    yahooFeed,      \* entries the Yahoo endpoint serves for the symbol
    googleFeed,     \* entries the Google endpoint serves for the symbol
    yahooOk,        \* "pending" / "ok" / "failed": outcome of feedparser.parse(yahoo_url)
    googleOk,       \* the same for google_url
    feeds,          \* fetch_news_rss: local list feeds
    fi,             \* index of the feed the outer loop is at
    ei,             \* index of the entry the inner loop is at
    now,            \* latest value datetime.utcnow() has returned
    clockLog,       \* per normalized entry: the clock readings taken for it
    entries,        \* fetch_news_rss: local list entries before deduplication
    result,         \* value returned by fetch_news_rss
    raised,         \* TRUE when an exception has left the function being run
    reqText,        \* SentimentRequest.text
    ai,             \* analyze_headlines: index of the entry the loop is at
    analyzed,       \* analyze_headlines: local list analyzed
    modelLog,       \* every call made to sentiment_model: its text and outcome
    pieces,         \* summarize_impact: local list pieces
    response,       \* body returned by POST /analyze_news
    pc              \* position in the request

vars == <<yahooFeed, googleFeed, yahooOk, googleOk, feeds, fi, ei, now, clockLog,
          entries, result, raised, reqText, ai, analyzed, modelLog, pieces,
          response, pc>>

fetchVars == <<yahooFeed, googleFeed, yahooOk, googleOk, feeds, fi, ei, now,
               clockLog, entries, result>>

analyzeVars == <<reqText, ai, analyzed, modelLog, pieces, response>>

-----------------------------------------------------------------------------
(* Bounds of the model *)

MaxTotal == 3       \* entries served by both endpoints together (short feeds)
MaxLong  == 27      \* distinct headlines in the long feeds
MaxDrift == 1       \* seconds the clock may advance during one request
MaxNews  == 3       \* headlines handed to analyze_headlines

(* Program constants *)

MaxItems      == 25        \* entries[:25]
RecencyDays   == 10        \* within_last_n_days(dt, 10)
SecondsPerDay == 86400     \* timedelta(days=days)

StartTime == 20 * SecondsPerDay     \* clock value when the request arrives

-----------------------------------------------------------------------------
(* Text helpers *)

Whitespace == {" ", "\t", "\n"}

Min(a, b) == IF a <= b THEN a ELSE b

Take(s, n) == SubSeq(s, 1, Min(n, Len(s)))

RECURSIVE LStrip(_)
LStrip(h) ==
    IF h # <<>> /\ Head(h) \in Whitespace THEN LStrip(Tail(h)) ELSE h

RECURSIVE RStrip(_)
RStrip(h) ==
    IF h # <<>> /\ h[Len(h)] \in Whitespace
    THEN RStrip(SubSeq(h, 1, Len(h) - 1))
    ELSE h

\* re.sub(r"\s+", " ", h): every maximal run of whitespace becomes one space
RECURSIVE SubWhitespace(_)
SubWhitespace(h) ==
    IF h = <<>> THEN <<>>
    ELSE IF Head(h) \in Whitespace
         THEN <<" ">> \o SubWhitespace(LStrip(Tail(h)))
         ELSE <<Head(h)>> \o SubWhitespace(Tail(h))

clean_headline(h) ==
    IF h = <<>> THEN <<>> ELSE RStrip(LStrip(SubWhitespace(h)))

LowerChar(c) ==
    CASE c = "A" -> "a"
      [] c = "B" -> "b"
      [] c = "C" -> "c"
      [] OTHER   -> c

\* str.lower()
Lower(s) == [i \in 1..Len(s) |-> LowerChar(s[i])]

\* hashlib.md5(x["title"].lower().encode()).hexdigest(): the digest is
\* represented by its preimage, MD5 being collision-free on the titles used
FingerprintNoLower(x) == <<"md5", x.title>>

Fingerprint(x) == <<"md5", Lower(x.title)>>

-----------------------------------------------------------------------------
(* Time helpers *)

None == [kind |-> "none", at |-> 0]
Bad  == [kind |-> "bad", at |-> 0]        \* a time tuple datetime() rejects
At(t) == [kind |-> "time", at |-> t]

within_last_n_daysStrict(dt, days, utcnow) == dt > utcnow - days * SecondsPerDay

\* utcnow is the value datetime.utcnow() returns inside the call
within_last_n_days(dt, days, utcnow) == dt >= utcnow - days * SecondsPerDay

\* utcnow is the value datetime.utcnow() returns on the fallback line
parse_time(entry, utcnow) ==
    IF entry.published_parsed.kind = "time" THEN entry.published_parsed.at
    ELSE IF entry.updated_parsed.kind = "time" THEN entry.updated_parsed.at
    ELSE utcnow

UsesFallback(entry) ==
    entry.published_parsed.kind # "time" /\ entry.updated_parsed.kind # "time"

\* dt.isoformat() + "Z"
IsoZ(dt) == [iso |-> dt, suffix |-> "Z"]

\* values a clock reading may take after a reading of t
Readings(t) == t..(StartTime + MaxDrift)

-----------------------------------------------------------------------------
(* dedupe_keep_order *)

\* the loop with out.insert(0, it) in place of out.append(it)
RECURSIVE DedupeLoopPrepend(_, _, _, _, _)
DedupeLoopPrepend(items, keyfunc, i, seen, out) ==
    IF i > Len(items) THEN out
    ELSE LET k == keyfunc[items[i]] IN
         IF k \in seen
         THEN DedupeLoopPrepend(items, keyfunc, i + 1, seen, out)
         ELSE DedupeLoopPrepend(items, keyfunc, i + 1, seen \cup {k},
                                <<items[i]>> \o out)

\* lines 69-75; keyfunc is a function on the items
RECURSIVE DedupeLoop(_, _, _, _, _)
DedupeLoop(items, keyfunc, i, seen, out) ==
    IF i > Len(items) THEN out
    ELSE LET k == keyfunc[items[i]] IN
         IF k \in seen
         THEN DedupeLoop(items, keyfunc, i + 1, seen, out)
         ELSE DedupeLoop(items, keyfunc, i + 1, seen \cup {k},
                         Append(out, items[i]))

dedupe_keep_order(items, keyfunc) == DedupeLoop(items, keyfunc, 1, {}, <<>>)

\* lambda x: hashlib.md5(x["title"].lower().encode()).hexdigest()
FingerprintKey(es) == [x \in { es[i] : i \in 1..Len(es) } |-> Fingerprint(x)]

\* lines 112-113 with truncation and deduplication swapped
DedupeAndCapTruncFirst(es) ==
    dedupe_keep_order(Take(es, MaxItems), FingerprintKey(es))

\* lines 112-113: deduplicate by fingerprint, then entries[:25]
DedupeAndCap(es) == Take(dedupe_keep_order(es, FingerprintKey(es)), MaxItems)

-----------------------------------------------------------------------------
(* Inputs: what the two endpoints serve *)

RawEntries == {
    [title |-> <<"A", " ", "b">>,
     published_parsed |-> At(StartTime - (RecencyDays * SecondsPerDay - 3600)),
     updated_parsed |-> None],
    [title |-> <<"A", " ", " ", "b">>,
     published_parsed |-> At(StartTime - RecencyDays * SecondsPerDay),
     updated_parsed |-> None],
    [title |-> <<"a", " ", "B">>,
     published_parsed |-> None,
     updated_parsed |-> At(StartTime - SecondsPerDay)],
    [title |-> <<" ", "c", "\t">>,
     published_parsed |-> None,
     updated_parsed |-> At(StartTime - RecencyDays * SecondsPerDay - 1)],
    [title |-> <<" ", "\t">>,
     published_parsed |-> At(StartTime),
     updated_parsed |-> None],
    [title |-> <<"C">>,
     published_parsed |-> Bad,
     updated_parsed |-> None] }

\* every entry of a feed carries its own link
WithLinks(src, raw) ==
    [i \in 1..Len(raw) |->
        [title |-> raw[i].title,
         published_parsed |-> raw[i].published_parsed,
         updated_parsed |-> raw[i].updated_parsed,
         link |-> <<src, i>>]]

ShortFeeds ==
    UNION { { <<WithLinks("yahoo", a), WithLinks("google", b)>> :
                a \in [1..ka -> RawEntries], b \in [1..kb -> RawEntries] } :
            <<ka, kb>> \in { p \in (0..MaxTotal) \X (0..MaxTotal) :
                               p[1] + p[2] <= MaxTotal } }

\* headline number n: five letters spelling n in binary, one fresh timestamp
LongTitle(n, upper) ==
    [k \in 1..5 |->
        IF (n \div (2 ^ (k - 1))) % 2 = 1
        THEN (IF upper THEN "B" ELSE "b")
        ELSE (IF upper THEN "A" ELSE "a")]

LongFeed(lo, hi, upper) ==
    [i \in 1..(hi - lo + 1) |->
        [title |-> LongTitle(lo + i - 1, upper),
         published_parsed |-> At(StartTime - SecondsPerDay),
         updated_parsed |-> None]]

LongFeeds ==
    { <<WithLinks("yahoo", LongFeed(1, MaxItems - 5, FALSE)),
        WithLinks("google", LongFeed(MaxItems - 10, MaxLong, TRUE))>>,
      <<WithLinks("yahoo", LongFeed(1, MaxLong, FALSE)),
        WithLinks("google", LongFeed(1, 3, TRUE))>> }

-----------------------------------------------------------------------------
(* fetch_news_rss *)

Init ==
    /\ \E p \in ShortFeeds \cup LongFeeds :
          /\ yahooFeed = p[1]
          /\ googleFeed = p[2]
    /\ yahooOk = "pending"
    /\ googleOk = "pending"
    /\ feeds = <<>>
    /\ fi = 1
    /\ ei = 1
    /\ now = StartTime
    /\ clockLog = <<>>
    /\ entries = <<>>
    /\ result = <<>>
    /\ raised = FALSE
    /\ reqText = <<>>
    /\ ai = 1
    /\ analyzed = <<>>
    /\ modelLog = <<>>
    /\ pieces = <<>>
    /\ response = [kind |-> "none"]
    /\ pc = "yahoo"

\* lines 86-89 without the try/except: the failure leaves fetch_news_rss
FetchYahooUnguarded ==
    /\ pc = "yahoo"
    /\ \E ok \in BOOLEAN :
          /\ yahooOk' = IF ok THEN "ok" ELSE "failed"
          /\ feeds' = IF ok THEN Append(feeds, yahooFeed) ELSE feeds
          /\ raised' = ~ok
          /\ pc' = IF ok THEN "google" ELSE "fetched"
    /\ UNCHANGED <<yahooFeed, googleFeed, googleOk, fi, ei, now, clockLog,
                   entries, result>>
    /\ UNCHANGED analyzeVars

\* lines 86-89: try feeds.append(feedparser.parse(yahoo_url)) except pass
FetchYahoo ==
    /\ pc = "yahoo"
    /\ \E ok \in BOOLEAN :
          /\ yahooOk' = IF ok THEN "ok" ELSE "failed"
          /\ feeds' = IF ok THEN Append(feeds, yahooFeed) ELSE feeds
    /\ pc' = "google"
    /\ UNCHANGED <<yahooFeed, googleFeed, googleOk, fi, ei, now, clockLog,
                   entries, result, raised>>
    /\ UNCHANGED analyzeVars

\* lines 90-93 with the Google feed put in front of the Yahoo feed
FetchGoogleFirst ==
    /\ pc = "google"
    /\ \E ok \in BOOLEAN :
          /\ googleOk' = IF ok THEN "ok" ELSE "failed"
          /\ feeds' = IF ok THEN <<googleFeed>> \o feeds ELSE feeds
    /\ pc' = "normalize"
    /\ UNCHANGED <<yahooFeed, googleFeed, yahooOk, fi, ei, now, clockLog,
                   entries, result, raised>>
    /\ UNCHANGED analyzeVars

\* lines 90-93
FetchGoogle ==
    /\ pc = "google"
    /\ \E ok \in BOOLEAN :
          /\ googleOk' = IF ok THEN "ok" ELSE "failed"
          /\ feeds' = IF ok THEN Append(feeds, googleFeed) ELSE feeds
    /\ pc' = "normalize"
    /\ UNCHANGED <<yahooFeed, googleFeed, yahooOk, fi, ei, now, clockLog,
                   entries, result, raised>>
    /\ UNCHANGED analyzeVars

\* lines 97-110: one iteration of the inner loop
NormalizeEntry ==
    /\ pc = "normalize"
    /\ fi <= Len(feeds)
    /\ ei <= Len(feeds[fi])
    /\ LET e == feeds[fi][ei] IN
       \E r1 \in (IF UsesFallback(e) THEN Readings(now) ELSE {now}) :
       \E r2 \in Readings(r1) :
          LET dt == parse_time(e, r1)
              title == clean_headline(e.title)
          IN /\ entries' =
                   IF ~within_last_n_days(dt, RecencyDays, r2) THEN entries
                   ELSE IF title = <<>> THEN entries
                   ELSE Append(entries, [title |-> title,
                                         link |-> e.link,
                                         published |-> IsoZ(dt)])
             /\ clockLog' = Append(clockLog, [parse |-> r1, check |-> r2])
             /\ now' = r2
    /\ ei' = ei + 1
    /\ UNCHANGED <<yahooFeed, googleFeed, yahooOk, googleOk, feeds, fi, result,
                   raised, pc>>
    /\ UNCHANGED analyzeVars

\* line 96: the outer loop moves to the next feed
NextFeed ==
    /\ pc = "normalize"
    /\ fi <= Len(feeds)
    /\ ei > Len(feeds[fi])
    /\ fi' = fi + 1
    /\ ei' = 1
    /\ UNCHANGED <<yahooFeed, googleFeed, yahooOk, googleOk, feeds, now,
                   clockLog, entries, result, raised, pc>>
    /\ UNCHANGED analyzeVars

\* lines 112-113
ReturnEntries ==
    /\ pc = "normalize"
    /\ fi > Len(feeds)
    /\ result' = DedupeAndCap(entries)
    /\ pc' = "fetched"
    /\ UNCHANGED <<yahooFeed, googleFeed, yahooOk, googleOk, feeds, fi, ei, now,
                   clockLog, entries, raised>>
    /\ UNCHANGED analyzeVars

Next ==
    \/ FetchYahoo
    \/ FetchGoogle
    \/ NormalizeEntry
    \/ NextFeed
    \/ ReturnEntries

Spec == Init /\ [][Next]_vars

-----------------------------------------------------------------------------
(* The classifier: sentiment_model(text)[0] *)

\* results of the FinBERT pipeline; score is in thousandths
ModelResults == {
    [ok |-> TRUE, label |-> "Positive", score |-> 900],
    [ok |-> TRUE, label |-> "Negative", score |-> 800],
    [ok |-> TRUE, label |-> "Neutral", score |-> 600] }

\* the call raises; str(ex) is ErrorText
ModelRaises == [ok |-> FALSE, label |-> "", score |-> 0]

ErrorText == "model error"

Outcomes == ModelResults \cup {ModelRaises}

\* res["label"].lower()
LabelLower(l) ==
    CASE l = "Positive" -> "positive"
      [] l = "Negative" -> "negative"
      [] l = "Neutral"  -> "neutral"
      [] OTHER          -> l

\* req.symbol and symbol.upper()
Symbol == "aapl"

Upper(s) == CASE s = "aapl" -> "AAPL" [] OTHER -> s

\* the text a client posts, when it posts one
UserText == <<"u", "p">>

-----------------------------------------------------------------------------
(* analyze_headlines *)

AnalyzedItem(e, res) ==
    [headline |-> e.title,
     sentiment |-> LabelLower(res.label),
     confidence |-> res.score,
     link |-> e.link,
     published |-> e.published]

\* lines 118-132 without the try/except: a failing headline leaves
\* analyze_headlines and the route answers with its error payload
ClassifyHeadlineAbort ==
    /\ pc = "analyze"
    /\ ai <= Len(result)
    /\ \E res \in Outcomes :
          /\ modelLog' = Append(modelLog, [text |-> result[ai].title, out |-> res])
          /\ analyzed' = IF res.ok
                         THEN Append(analyzed, AnalyzedItem(result[ai], res))
                         ELSE analyzed
          /\ raised' = ~res.ok
          /\ pc' = IF res.ok THEN "analyze" ELSE "done"
          /\ response' = IF res.ok THEN response
                         ELSE [kind |-> "error",
                               error |-> "Analysis failed: " \o ErrorText]
    /\ ai' = ai + 1
    /\ UNCHANGED <<reqText, pieces>>
    /\ UNCHANGED fetchVars

\* lines 118-132: one iteration of the loop
ClassifyHeadline ==
    /\ pc = "analyze"
    /\ ai <= Len(result)
    /\ \E res \in Outcomes :
          /\ modelLog' = Append(modelLog, [text |-> result[ai].title, out |-> res])
          /\ analyzed' = IF res.ok
                         THEN Append(analyzed, AnalyzedItem(result[ai], res))
                         ELSE analyzed
    /\ ai' = ai + 1
    /\ UNCHANGED <<reqText, pieces, response, raised, pc>>
    /\ UNCHANGED fetchVars

-----------------------------------------------------------------------------
(* summarize_impact *)

RECURSIVE SumConfidence(_)
SumConfidence(as) ==
    IF as = <<>> THEN 0 ELSE Head(as).confidence + SumConfidence(Tail(as))

\* counts.get(s, 0) + 1 over the list
CountOf(as, s) == Cardinality({ i \in 1..Len(as) : as[i].sentiment = s })

\* round(avg_conf * 100, 1) in tenths of a percent; the scores used never
\* put the average half-way between two tenths
AvgTenths(as) ==
    LET n == IF Len(as) > 0 THEN Len(as) ELSE 1
    IN (2 * SumConfidence(as) + n) \div (2 * n)

\* how a number of tenths prints: 766 -> "76.6"
Tenths(t) == ToString(t \div 10) \o "." \o ToString(t % 10)

\* lines 146-151 with a tie counted as positive
TiltOfTiePositive(positive, negative) ==
    IF positive >= negative THEN "overall leaning positive"
    ELSE IF negative > positive THEN "overall leaning negative"
    ELSE "overall balanced/neutral"

\* lines 146-151
TiltOf(positive, negative) ==
    IF positive > negative THEN "overall leaning positive"
    ELSE IF negative > positive THEN "overall leaning negative"
    ELSE "overall balanced/neutral"

HeadlinePiece(symbol, tilt) ==
    "In the last 10 days, news flow for " \o Upper(symbol) \o " appears "
        \o tilt \o "."

CountsPiece(as) ==
    "Observed headlines: " \o ToString(CountOf(as, "positive")) \o " positive, "
        \o ToString(CountOf(as, "negative")) \o " negative, "
        \o ToString(CountOf(as, "neutral"))
        \o " neutral with average confidence around "
        \o Tenths(AvgTenths(as)) \o "%."

DownsidePiece == "This may indicate short-term downside pressure or uncertainty."
ConstructivePiece == "This may support a constructive short-term outlook."
MixedPiece == "Signals are mixed; consider waiting for clearer catalysts."

DirectionOf(positive, negative) ==
    IF negative > positive THEN DownsidePiece
    ELSE IF positive > negative THEN ConstructivePiece
    ELSE MixedPiece

UserTonePiece(ures) ==
    "User-provided news tone is " \o LabelLower(ures.label) \o " (confidence "
        \o Tenths(ures.score) \o "%)."

UserFollowPiece(ulabel) ==
    IF ulabel = "positive"
    THEN "This could strengthen the positive bias if seen elsewhere."
    ELSE IF ulabel = "negative"
    THEN "This could increase short-term downside risk if confirmed."
    ELSE "The user update is neutral and does not change bias."

UserErrorPiece == "Could not analyze user text: " \o ErrorText

\* the fixed closing piece (its leading emoji is left out)
ClosingPiece ==
    "Plain-English impact on the coherent system: sentiment modifies short-term risk and volatility. Negative tone can elevate drawdowns; positive tone can compress risk premia. Use as context, not as a standalone signal."

\* lines 164-177 with the follow-on remark left out
UserPiecesNoFollow(user_text, ures) ==
    IF user_text = <<>> THEN <<>>
    ELSE IF ures.ok THEN <<UserTonePiece(ures)>>
    ELSE <<UserErrorPiece>>

\* lines 164-177; ures is what sentiment_model(user_text) does
UserPieces(user_text, ures) ==
    IF user_text = <<>> THEN <<>>
    ELSE IF ures.ok
         THEN <<UserTonePiece(ures), UserFollowPiece(LabelLower(ures.label))>>
         ELSE <<UserErrorPiece>>

\* the list pieces of summarize_impact
summarize_impact(symbol, analyzed_list, user_text, ures) ==
    LET positive == CountOf(analyzed_list, "positive")
        negative == CountOf(analyzed_list, "negative")
    IN <<HeadlinePiece(symbol, TiltOf(positive, negative)),
         CountsPiece(analyzed_list),
         DirectionOf(positive, negative)>>
       \o UserPieces(user_text, ures)
       \o <<ClosingPiece>>

\* " ".join(pieces)
RECURSIVE Join(_)
Join(ps) ==
    IF ps = <<>> THEN ""
    ELSE IF Len(ps) = 1 THEN ps[1]
    ELSE ps[1] \o " " \o Join(Tail(ps))

\* analyze_news line 258, once analyze_headlines has returned
SummarizeImpact ==
    /\ pc = "analyze"
    /\ ai > Len(result)
    /\ \E ures \in (IF reqText # <<>> THEN Outcomes ELSE {ModelRaises}) :
          /\ pieces' = summarize_impact(Symbol, analyzed, reqText, ures)
          /\ modelLog' = IF reqText # <<>>
                         THEN Append(modelLog, [text |-> reqText, out |-> ures])
                         ELSE modelLog
    /\ pc' = "respond"
    /\ UNCHANGED <<reqText, ai, analyzed, response, raised>>
    /\ UNCHANGED fetchVars

-----------------------------------------------------------------------------
(* POST /analyze_news, lines 261-272 *)

Payload(user_sentiment_result) ==
    [kind |-> "payload",
     symbol |-> Upper(Symbol),
     user_sentiment |-> LabelLower(user_sentiment_result.label),
     user_score |-> user_sentiment_result.score,
     last_10d_news |-> analyzed,
     impact_summary_plain_english |-> Join(pieces)]

ErrorPayload == [kind |-> "error", error |-> "Analysis failed: " \o ErrorText]

\* {"label": "neutral", "score": 0.5}
DefaultSentiment == [ok |-> TRUE, label |-> "neutral", score |-> 500]

\* lines 261-272: the text is classified a second time; a failure is caught
\* by the route's except and answered with the error payload
Respond ==
    /\ pc = "respond"
    /\ \/ /\ reqText = <<>>
          /\ response' = Payload(DefaultSentiment)
          /\ UNCHANGED <<modelLog, raised>>
       \/ /\ reqText # <<>>
          /\ \E res \in Outcomes :
                /\ modelLog' = Append(modelLog, [text |-> reqText, out |-> res])
                /\ response' = IF res.ok THEN Payload(res) ELSE ErrorPayload
                /\ UNCHANGED raised
    /\ pc' = "done"
    /\ UNCHANGED <<reqText, ai, analyzed, pieces>>
    /\ UNCHANGED fetchVars

\* the lists fetch_news_rss hands over: distinct clean headlines
NewsFeeds ==
    { f \in UNION { [1..k -> 1..4] : k \in 0..MaxNews } :
        \A i, j \in 1..Len(f) : i # j => f[i] # f[j] }

NewsFeed(f) ==
    WithLinks("yahoo",
        [i \in 1..Len(f) |->
            [title |-> LongTitle(f[i], FALSE),
             published_parsed |-> At(StartTime - SecondsPerDay),
             updated_parsed |-> None]])

NewsEntries(feed) ==
    [i \in 1..Len(feed) |->
        [title |-> clean_headline(feed[i].title),
         link |-> feed[i].link,
         published |-> IsoZ(parse_time(feed[i], StartTime))]]

\* analyze_news after fetch_news_rss has returned the Yahoo entries, the
\* Google feed being empty
InitAnalyze ==
    /\ \E f \in NewsFeeds :
          /\ yahooFeed = NewsFeed(f)
          /\ clockLog = [i \in 1..Len(f) |-> [parse |-> StartTime, check |-> StartTime]]
    /\ googleFeed = <<>>
    /\ yahooOk = "ok"
    /\ googleOk = "ok"
    /\ feeds = <<yahooFeed, googleFeed>>
    /\ fi = 3
    /\ ei = 1
    /\ now = StartTime
    /\ entries = NewsEntries(yahooFeed)
    /\ result = DedupeAndCap(entries)
    /\ raised = FALSE
    /\ reqText \in {<<>>, UserText}
    /\ ai = 1
    /\ analyzed = <<>>
    /\ modelLog = <<>>
    /\ pieces = <<>>
    /\ response = [kind |-> "none"]
    /\ pc = "analyze"

NextAnalyze ==
    \/ ClassifyHeadline
    \/ SummarizeImpact
    \/ Respond

SpecAnalyze == InitAnalyze /\ [][NextAnalyze]_vars

-----------------------------------------------------------------------------
(* Vocabulary of the properties of fetch_news_rss *)

RECURSIVE Flatten(_)
Flatten(ss) == IF ss = <<>> THEN <<>> ELSE Head(ss) \o Flatten(Tail(ss))

\* the raw entries the loop of lines 96-110 goes through, in its order
Served == Flatten(feeds)

\* the key two entries are duplicates by: the lower-cased cleaned title
Key(x) == Lower(x.title)

Keys(es) == { Key(es[i]) : i \in 1..Len(es) }

Links(es) == { es[i].link : i \in 1..Len(es) }

\* l1 comes before l2 in the order Yahoo first, then Google, each in feed order
LinkBefore(l1, l2) ==
    \/ l1[1] = "yahoo" /\ l2[1] = "google"
    \/ l1[1] = l2[1] /\ l1[2] < l2[2]

\* the first occurrence of every key of es, in the order of es
FirstOccurrences(es) ==
    LET K == { i \in 1..Len(es) : \A j \in 1..(i - 1) : Key(es[j]) # Key(es[i]) }
        idx(n) == CHOOSE i \in K : Cardinality({ j \in K : j <= i }) = n
    IN [n \in 1..Cardinality(K) |-> es[idx(n)]]

AllWhitespace(h) == \A i \in 1..Len(h) : h[i] \in Whitespace

\* non-empty, no leading, trailing or repeated whitespace
CleanTitle(h) ==
    /\ h # <<>>
    /\ h[1] \notin Whitespace
    /\ h[Len(h)] \notin Whitespace
    /\ \A i \in 1..(Len(h) - 1) : ~(h[i] \in Whitespace /\ h[i + 1] \in Whitespace)

\* what fetch_news_rss returns when feed is the only feed and the clock
\* readings are those of log
RECURSIVE NormalizeAlone(_, _, _)
NormalizeAlone(feed, log, k) ==
    IF k > Len(feed) THEN <<>>
    ELSE LET e == feed[k]
             dt == parse_time(e, log[k].parse)
             keep == /\ ~AllWhitespace(e.title)
                     /\ dt >= log[k].check - RecencyDays * SecondsPerDay
         IN (IF keep
             THEN <<[title |-> clean_headline(e.title), link |-> e.link,
                     published |-> IsoZ(dt)]>>
             ELSE <<>>) \o NormalizeAlone(feed, log, k + 1)

FetchAlone(feed, log) ==
    Take(FirstOccurrences(NormalizeAlone(feed, log, 1)), MaxItems)

-----------------------------------------------------------------------------
\* C1: the list fetch_news_rss returns holds no two entries with the same
\* fingerprint (lower-cased, whitespace-collapsed, trimmed title), and up to
\* the cap it holds one entry per distinct fingerprint retained, so titles
\* that differ only in whitespace runs or letter case are kept once.
C1_NoDuplicateFingerprint ==
    pc = "fetched" =>
        /\ \A i, j \in 1..Len(result) : i < j => Key(result[i]) # Key(result[j])
        /\ Len(result) = Min(MaxItems, Cardinality(Keys(entries)))

\* two retained titles differing only in whitespace, or only in case, and one
\* other retained title: 2 entries returned, not 3
C1_Witness ==
    /\ pc = "fetched"
    /\ Len(entries) = 3
    /\ Len(result) = 2
    /\ \E i, j \in 1..Len(Served) :
          /\ Served[i].link \in Links(entries)
          /\ Served[j].link \in Links(entries)
          /\ Served[i].title = <<"A", " ", "b">>
          /\ Served[j].title \in { <<"A", " ", " ", "b">>, <<"a", " ", "B">> }

\* C2: the returned list has at most 25 entries and at most as many as the
\* sources supplied; the cap is applied after deduplication, so with at least
\* 25 distinct fingerprints retained the result is exactly the first 25
\* distinct entries.
C2_CapAfterDedupe ==
    pc = "fetched" =>
        /\ Len(result) <= MaxItems
        /\ Len(result) <= Len(Served)
        /\ Cardinality(Keys(entries)) >= MaxItems =>
              /\ Len(result) = MaxItems
              /\ result = Take(FirstOccurrences(entries), MaxItems)

\* more than 25 distinct fingerprints, some duplicated among the first 25
\* retained entries
C2_Witness ==
    /\ pc = "fetched"
    /\ Cardinality(Keys(entries)) > MaxItems
    /\ Cardinality(Keys(Take(entries, MaxItems))) < MaxItems
    /\ Len(result) = MaxItems

\* C3: the retained entries are in merge order (all Yahoo entries before all
\* Google entries, feed order within a source); the result is a subsequence of
\* them in that order, and each returned entry is the first occurrence of its
\* fingerprint; below the cap no fingerprint is lost.
C3_OrderPreserved ==
    pc = "fetched" =>
        /\ \A i, j \in 1..Len(entries) :
              i < j => LinkBefore(entries[i].link, entries[j].link)
        /\ \A i, j \in 1..Len(result) :
              i < j => LinkBefore(result[i].link, result[j].link)
        /\ \A i \in 1..Len(result) :
              /\ \E k \in 1..Len(entries) : entries[k] = result[i]
              /\ \A k \in 1..Len(entries) :
                    Key(entries[k]) = Key(result[i]) /\ entries[k] # result[i]
                        => LinkBefore(result[i].link, entries[k].link)
        /\ Len(result) < MaxItems => Keys(result) = Keys(entries)

\* both sources contribute, a Google entry duplicates a Yahoo entry and is
\* dropped, and another Google entry is returned after the Yahoo ones
C3_Witness ==
    /\ pc = "fetched"
    /\ \E i, j \in 1..Len(entries) :
          /\ entries[i].link[1] = "yahoo"
          /\ entries[j].link[1] = "google"
          /\ Key(entries[i]) = Key(entries[j])
          /\ entries[j].link \notin Links(result)
    /\ \E i, j \in 1..Len(result) :
          /\ i < j
          /\ result[i].link[1] = "yahoo"
          /\ result[j].link[1] = "google"

\* C4: a failed source never makes fetch_news_rss fail: with one source
\* failed the result is what the other source alone yields, with both failed
\* it is the empty list.
C4_SourceFailureIsolated ==
    pc = "fetched" =>
        /\ ~raised
        /\ yahooOk = "failed" /\ googleOk = "ok"
              => result = FetchAlone(googleFeed, clockLog)
        /\ yahooOk = "ok" /\ googleOk = "failed"
              => result = FetchAlone(yahooFeed, clockLog)
        /\ yahooOk = "failed" /\ googleOk = "failed" => result = <<>>

\* Yahoo failed although it serves entries, and Google's entries are returned
C4_Witness ==
    /\ pc = "fetched"
    /\ yahooOk = "failed"
    /\ googleOk = "ok"
    /\ yahooFeed # <<>>
    /\ result # <<>>

\* C9: an entry is rejected exactly when its title is empty after cleaning
\* or its parsed timestamp is strictly earlier than now - 10 days, now being
\* the clock reading of the check; every retained title is clean.
C9_RejectionExact ==
    /\ \A k \in 1..Len(clockLog) :
          LET e == Served[k]
              dt == parse_time(e, clockLog[k].parse)
          IN (e.link \notin Links(entries))
                 <=> \/ AllWhitespace(e.title)
                     \/ dt < clockLog[k].check - RecencyDays * SecondsPerDay
    /\ \A i \in 1..Len(entries) : CleanTitle(entries[i].title)

\* stamped 10 days and 1 second before the check: rejected; stamped exactly
\* 10 days before, and 9 days 23 hours before: retained
C9_Witness ==
    LET age(k) == clockLog[k].check - parse_time(Served[k], clockLog[k].parse)
        kept(k) == Served[k].link \in Links(entries)
    IN /\ \E k \in 1..Len(clockLog) :
             age(k) = RecencyDays * SecondsPerDay + 1 /\ ~kept(k)
       /\ \E k \in 1..Len(clockLog) :
             age(k) = RecencyDays * SecondsPerDay /\ kept(k)
       /\ \E k \in 1..Len(clockLog) :
             age(k) = RecencyDays * SecondsPerDay - 3600 /\ kept(k)

\* C10: deduplicating an already deduplicated list returns it unchanged.
C10_DedupeIdempotent ==
    LET once == dedupe_keep_order(entries, FingerprintKey(entries))
    IN dedupe_keep_order(once, FingerprintKey(once)) = once

\* a list with a duplicate and two distinct fingerprints has been deduplicated
C10_Witness ==
    /\ pc = "fetched"
    /\ Cardinality(Keys(entries)) >= 2
    /\ Len(entries) > Cardinality(Keys(entries))

-----------------------------------------------------------------------------
(* Vocabulary of the properties of the analysis *)

\* the classifier call made for the user text inside summarize_impact
UserCall == modelLog[Len(result) + 1]

Summarized == pc \in {"respond", "done"}

\* indices of the headlines attempted so far whose classification succeeded
Succeeded == { i \in 1..(ai - 1) : modelLog[i].out.ok }

NthSucceeded(n) ==
    CHOOSE i \in Succeeded : Cardinality({ j \in Succeeded : j <= i }) = n

\* C5: analyze_headlines never raises; it calls the classifier once per
\* headline, in order, and returns exactly the successfully classified
\* headlines in input order; a failing headline is skipped and the rest of
\* the batch is still processed.
C5_SkipAndContinue ==
    /\ ~raised
    /\ pc # "analyze" => ai = Len(result) + 1
    /\ pc = "analyze" => Len(modelLog) = ai - 1
    /\ \A i \in 1..(ai - 1) : modelLog[i].text = result[i].title
    /\ Len(analyzed) = Cardinality(Succeeded)
    /\ \A n \in 1..Len(analyzed) :
          LET i == NthSucceeded(n)
          IN /\ analyzed[n].headline = result[i].title
             /\ analyzed[n].link = result[i].link
             /\ analyzed[n].sentiment = LabelLower(modelLog[i].out.label)
             /\ analyzed[n].confidence = modelLog[i].out.score

\* the second of three headlines failed, the first and third are returned
C5_Witness ==
    /\ pc = "respond"
    /\ Len(result) = 3
    /\ modelLog[1].out.ok
    /\ ~modelLog[2].out.ok
    /\ modelLog[3].out.ok
    /\ Len(analyzed) = 2
    /\ analyzed[2].headline = result[3].title

\* C6: when the classification of non-empty user text fails, the response of
\* POST /analyze_news still carries the summary, with the "Could not analyze
\* user text" piece, and the analyzed headlines, not an error payload.
C6_UserTextFailureInline ==
    (pc = "done" /\ reqText # <<>> /\ ~UserCall.out.ok) =>
        /\ response.kind = "payload"
        /\ response.impact_summary_plain_english = Join(pieces)
        /\ UserErrorPiece \in { pieces[i] : i \in 1..Len(pieces) }
        /\ response.last_10d_news = analyzed

\* C7 as stated: 4 pieces without user text, 5 with user text whether or
\* not its classification succeeds.
C7_PieceCountAsStated ==
    Summarized => Len(pieces) = (IF reqText = <<>> THEN 4 ELSE 5)

\* C7 amended: 4 pieces without user text, 6 with user text classified
\* successfully (tone piece and follow-on piece), 5 with user text whose
\* classification fails, whatever the analyzed list.
C7_PieceCount ==
    Summarized =>
        Len(pieces) = (IF reqText = <<>> THEN 4
                       ELSE IF UserCall.out.ok THEN 6
                       ELSE 5)

\* user text classified successfully over a non-empty analyzed list
C7_Witness ==
    /\ pc = "respond"
    /\ reqText # <<>>
    /\ UserCall.out.ok
    /\ analyzed # <<>>
    /\ Len(pieces) = 6

\* C8: the first piece says leaning positive exactly when positives
\* outnumber negatives, leaning negative exactly when negatives outnumber
\* positives, balanced/neutral exactly on a tie; the third piece follows
\* the same comparison.
C8_TiltTieBreak ==
    Summarized =>
        LET positive == Cardinality({ i \in 1..Len(analyzed) :
                                        analyzed[i].sentiment = "positive" })
            negative == Cardinality({ i \in 1..Len(analyzed) :
                                        analyzed[i].sentiment = "negative" })
            says(tilt) == pieces[1] = HeadlinePiece(Symbol, tilt)
        IN /\ says("overall leaning positive") <=> positive > negative
           /\ says("overall leaning negative") <=> negative > positive
           /\ says("overall balanced/neutral") <=> positive = negative
           /\ pieces[3] = ConstructivePiece <=> positive > negative
           /\ pieces[3] = DownsidePiece <=> negative > positive
           /\ pieces[3] = MixedPiece <=> positive = negative

\* one positive, one negative and one neutral headline: a tie
C8_Witness ==
    /\ pc = "respond"
    /\ Len(analyzed) = 3
    /\ \E i, j, k \in 1..3 :
          /\ analyzed[i].sentiment = "positive"
          /\ analyzed[j].sentiment = "negative"
          /\ analyzed[k].sentiment = "neutral"
    /\ pieces[1] = HeadlinePiece(Symbol, "overall balanced/neutral")
    /\ pieces[3] = MixedPiece

====
